---- MODULE Spec2Model ----
(***************************************************************************)
(* Model of wagtail/wagtailcore/blocks/field_block.py: the FieldBlock      *)
(* family (Char, URL, Date, Time, DateTime, RichText, RawHTML,             *)
(* PageChooser), the lazily cached form field of each block, the record    *)
(* store behind the chooser, and the conversions to_python /               *)
(* get_prep_value / clean / render_form.                                   *)
(*                                                                         *)
(* Python values are tagged records: None, StrV(<<chars>>), IntV(n),       *)
(* DateV, TimeV, DateTimeV and Inst (a model instance).  A call's outcome  *)
(* is Ret(value) or Raise(exception, code).  Strings are sequences of      *)
(* one-character strings, so that formatting and parsing are computed      *)
(* character by character.                                                 *)
(*                                                                         *)
(* The framework functions the module calls (django.utils.dateparse,       *)
(* DjangoJSONEncoder, django.forms fields) are modelled as Django 1.7      *)
(* implements them, at the place of the module that calls them.            *)
(***************************************************************************)
EXTENDS Integers, Sequences, FiniteSets, TLC

\* Number of primary keys the record store can hold.
MaxPk == 2

---------------------------------------------------------------------------
\* Python values and call outcomes

None == [t |-> "none"]
StrV(s) == [t |-> "str", s |-> s]
IntV(n) == [t |-> "int", n |-> n]
DateV(y, m, d) == [t |-> "date", y |-> y, m |-> m, d |-> d]
TimeV(h, mi, s, us) == [t |-> "time", h |-> h, mi |-> mi, s |-> s, us |-> us]
\* tz is <<>> for a naive datetime and <<offset in minutes>> for an aware one
DateTimeV(y, m, d, h, mi, s, us, tz) ==
    [t |-> "datetime", y |-> y, m |-> m, d |-> d,
     h |-> h, mi |-> mi, s |-> s, us |-> us, tz |-> tz]
\* a target_model instance; pk is None for an instance that was never saved
Inst(pk, title) == [t |-> "inst", pk |-> pk, title |-> title]

Ret(v) == [kind |-> "return", val |-> v]
Raise(exc, code) == [kind |-> "raise", exc |-> exc, code |-> code]

IsStr(v) == v.t = "str"
IsInst(v) == v.t = "inst"

---------------------------------------------------------------------------
\* Characters, digits, formatting

DigitChars == <<"0", "1", "2", "3", "4", "5", "6", "7", "8", "9">>
IsDigit(c) == \E i \in 1..10 : DigitChars[i] = c
DigitVal(c) == (CHOOSE i \in 1..10 : DigitChars[i] = c) - 1

RECURSIVE ToInt(_)
\* int() of a non-empty sequence of digit characters
ToInt(ds) ==
    IF Len(ds) = 0 THEN 0
    ELSE 10 * ToInt(SubSeq(ds, 1, Len(ds) - 1)) + DigitVal(ds[Len(ds)])

RECURSIVE Pad(_, _)
\* "%0<w>d" % n
Pad(n, w) ==
    IF w = 0 THEN <<>>
    ELSE Pad(n \div 10, w - 1) \o <<DigitChars[(n % 10) + 1]>>

\* number of digit characters at s[p], s[p+1], ... , at most max
DigitsAt(s, p, max) ==
    LET run == {k \in 0..max : \A i \in 0..(k - 1) :
                                 p + i <= Len(s) /\ IsDigit(s[p + i])}
    IN  CHOOSE k \in run : \A j \in run : j <= k

CharAt(s, p) == IF p >= 1 /\ p <= Len(s) THEN s[p] ELSE ""

\* str.ljust(6, '0') of a run of at most six digits, as a number
LJust6(ds) == ToInt(ds \o [i \in 1..(6 - Len(ds)) |-> "0"])

---------------------------------------------------------------------------
\* datetime.date / datetime.time constructors (they raise ValueError)

IsLeap(y) == (y % 4 = 0) /\ ((y % 100 # 0) \/ (y % 400 = 0))
DaysInMonth(y, m) ==
    IF m = 2 THEN (IF IsLeap(y) THEN 29 ELSE 28)
    ELSE IF m \in {4, 6, 9, 11} THEN 30 ELSE 31
ValidDate(y, m, d) ==
    /\ y >= 1 /\ y <= 9999
    /\ m >= 1 /\ m <= 12
    /\ d >= 1 /\ d <= DaysInMonth(y, m)
ValidTime(h, mi, s, us) ==
    /\ h >= 0 /\ h <= 23
    /\ mi >= 0 /\ mi <= 59
    /\ s >= 0 /\ s <= 59
    /\ us >= 0 /\ us <= 999999

---------------------------------------------------------------------------
\* django.utils.dateparse (regular expression matching, then the constructor)

NoMatch == [ok |-> FALSE]

\* the number at s[p .. p + n - 1], 0 for a group that did not take part
Group(s, p, n) == IF n > 0 THEN ToInt(SubSeq(s, p, p + n - 1)) ELSE 0

\* (?P<year>\d{4})-(?P<month>\d{1,2})-(?P<day>\d{1,2}) matched at s[1], with
\* mn and dn the digits of month and day; end is the position after the match
DateMatch(s, mn, dn) ==
    IF \/ DigitsAt(s, 1, 4) # 4 \/ CharAt(s, 5) # "-"
       \/ mn = 0 \/ CharAt(s, 6 + mn) # "-" \/ dn = 0
    THEN NoMatch
    ELSE [ok |-> TRUE, y |-> Group(s, 1, 4), m |-> Group(s, 6, mn),
          d |-> Group(s, 7 + mn, dn), end |-> 7 + mn + dn]
DateDay(s, mn) == DateMatch(s, mn, DigitsAt(s, 7 + mn, 2))
ScanDate(s) == DateDay(s, DigitsAt(s, 6, 2))

\* (?P<hour>\d{1,2}):(?P<minute>\d{1,2})
\* (?::(?P<second>\d{1,2})(?:\.(?P<microsecond>\d{1,6})\d{0,6})?)?
\* matched at s[p]: hn, mn, sn, un are the digits of the four groups (0 for
\* an optional group that is absent), xn the digits after the microseconds
TimeMatch(s, p, hn, mn, sn, un, xn) ==
    IF hn = 0 \/ CharAt(s, p + hn) # ":" \/ mn = 0
    THEN NoMatch
    ELSE [ok |-> TRUE,
          h |-> Group(s, p, hn),
          mi |-> Group(s, p + hn + 1, mn),
          s |-> Group(s, p + hn + mn + 2, sn),
          us |-> IF un > 0
                 THEN LJust6(SubSeq(s, p + hn + mn + sn + 3, p + hn + mn + sn + un + 2))
                 ELSE 0,
          end |-> p + hn + 1 + mn + (IF sn > 0 THEN 1 + sn ELSE 0)
                    + (IF un > 0 THEN 1 + un + xn ELSE 0)]
TimeExtra(s, p, hn, mn, sn, un) ==
    TimeMatch(s, p, hn, mn, sn, un,
              IF un > 0 THEN DigitsAt(s, p + hn + mn + sn + un + 3, 6) ELSE 0)
TimeMicro(s, p, hn, mn, sn) ==
    TimeExtra(s, p, hn, mn, sn,
              IF sn > 0 /\ CharAt(s, p + hn + mn + sn + 2) = "."
              THEN DigitsAt(s, p + hn + mn + sn + 3, 6) ELSE 0)
TimeSecond(s, p, hn, mn) ==
    TimeMicro(s, p, hn, mn,
              IF CharAt(s, p + hn + mn + 1) = ":"
              THEN DigitsAt(s, p + hn + mn + 2, 2) ELSE 0)
TimeMinute(s, p, hn) == TimeSecond(s, p, hn, DigitsAt(s, p + hn + 1, 2))
ScanTime(s, p) == TimeMinute(s, p, DigitsAt(s, p, 2))

\* (?P<tzinfo>Z|[+-]\d{2}:?\d{2})? matched at s[p]; colon is 1 when the
\* offset is written with a colon
TzMatch(s, p, colon) ==
    IF CharAt(s, p) = "Z" THEN [tz |-> <<0>>, end |-> p + 1]
    ELSE IF /\ CharAt(s, p) \in {"+", "-"}
            /\ DigitsAt(s, p + 1, 2) = 2
            /\ DigitsAt(s, p + 3 + colon, 2) = 2
         THEN [tz |-> <<(IF CharAt(s, p) = "-" THEN 0 - 1 ELSE 1)
                          * (60 * Group(s, p + 1, 2) + Group(s, p + 3 + colon, 2))>>,
               end |-> p + 5 + colon]
         ELSE [tz |-> <<>>, end |-> p]
ScanTz(s, p) == TzMatch(s, p, IF CharAt(s, p + 3) = ":" THEN 1 ELSE 0)

\* datetime.date(**kw) on a match that reaches the end of the string
DateOfMatch(s, k) ==
    IF ~k.ok \/ k.end # Len(s) + 1 THEN Ret(None)
    ELSE IF ValidDate(k.y, k.m, k.d) THEN Ret(DateV(k.y, k.m, k.d))
    ELSE Raise("ValueError", "")

\* parse_date: None when the input is not well formatted, ValueError when it
\* is well formatted but not a valid date; TypeError when it is no string
parse_date(value) ==
    IF ~IsStr(value) THEN Raise("TypeError", "")
    ELSE DateOfMatch(value.s, ScanDate(value.s))

\* datetime.time(**kw) on a match; time_re carries no end anchor
TimeOfMatch(k) ==
    IF ~k.ok THEN Ret(None)
    ELSE IF ValidTime(k.h, k.mi, k.s, k.us) THEN Ret(TimeV(k.h, k.mi, k.s, k.us))
    ELSE Raise("ValueError", "")

parse_time(value) ==
    IF ~IsStr(value) THEN Raise("TypeError", "")
    ELSE TimeOfMatch(ScanTime(value.s, 1))

\* datetime.datetime(**kw) on the matches of the date, the time and the offset
DateTimeOfMatch(s, kd, kt, kz) ==
    IF ~kt.ok \/ kz.end # Len(s) + 1 THEN Ret(None)
    ELSE IF ValidDate(kd.y, kd.m, kd.d) /\ ValidTime(kt.h, kt.mi, kt.s, kt.us)
         THEN Ret(DateTimeV(kd.y, kd.m, kd.d, kt.h, kt.mi, kt.s, kt.us, kz.tz))
    ELSE Raise("ValueError", "")
DateTimeTz(s, kd, kt) ==
    DateTimeOfMatch(s, kd, kt,
                    IF kt.ok THEN ScanTz(s, kt.end) ELSE [tz |-> <<>>, end |-> 0])
DateTimeTime(s, kd) ==
    DateTimeTz(s, kd,
               IF kd.ok /\ CharAt(s, kd.end) \in {"T", " "}
               THEN ScanTime(s, kd.end + 1) ELSE NoMatch)

\* parse_datetime: date, 'T' or ' ', time, optional offset, end of string
parse_datetime(value) ==
    IF ~IsStr(value) THEN Raise("TypeError", "")
    ELSE DateTimeTime(value.s, ScanDate(value.s))

---------------------------------------------------------------------------
\* The storage serializer: json.dumps(..., cls=DjangoJSONEncoder)

IsoDate(y, m, d) == Pad(y, 4) \o <<"-">> \o Pad(m, 2) \o <<"-">> \o Pad(d, 2)
IsoTime(h, mi, s, us) ==
    Pad(h, 2) \o <<":">> \o Pad(mi, 2) \o <<":">> \o Pad(s, 2)
      \o (IF us # 0 THEN <<".">> \o Pad(us, 6) ELSE <<>>)
IsoOffset(tz) ==
    IF tz = <<>> THEN <<>>
    ELSE LET a == IF tz[1] < 0 THEN 0 - tz[1] ELSE tz[1]
         IN  <<IF tz[1] < 0 THEN "-" ELSE "+">>
               \o Pad(a \div 60, 2) \o <<":">> \o Pad(a % 60, 2)
\* datetime.isoformat()
IsoDateTime(v) ==
    IsoDate(v.y, v.m, v.d) \o <<"T">> \o IsoTime(v.h, v.mi, v.s, v.us)
      \o IsoOffset(v.tz)

EndsWith(r, suffix) ==
    /\ Len(r) >= Len(suffix)
    /\ SubSeq(r, Len(r) - Len(suffix) + 1, Len(r)) = suffix

\* r[:23] + r[26:] when the value has microseconds
CutMicroseconds(us, r) ==
    IF us # 0 THEN SubSeq(r, 1, 23) \o SubSeq(r, 27, Len(r)) ELSE r
\* a trailing +00:00 is written Z
ZuluSuffix(r) ==
    IF EndsWith(r, <<"+", "0", "0", ":", "0", "0">>)
    THEN SubSeq(r, 1, Len(r) - 6) \o <<"Z">> ELSE r
\* r[:12] when the time has microseconds
CutTime(us, r) == IF us # 0 THEN SubSeq(r, 1, 12) ELSE r

\* DjangoJSONEncoder.default followed by json.loads: dates, times and
\* datetimes become strings (microseconds cut to milliseconds, +00:00
\* written Z); None, numbers and strings come back as they are
JSONRoundTrip(v) ==
    CASE v.t = "datetime" -> Ret(StrV(ZuluSuffix(CutMicroseconds(v.us, IsoDateTime(v)))))
      [] v.t = "date" -> Ret(StrV(IsoDate(v.y, v.m, v.d)))
      [] v.t = "time" -> Ret(StrV(CutTime(v.us, IsoTime(v.h, v.mi, v.s, v.us))))
      [] v.t = "inst" -> Raise("TypeError", "")
      [] OTHER -> Ret(v)

---------------------------------------------------------------------------
\* Blocks, their form fields and the record store

VARIABLES
    block,   \* the block instance: its class and constructor options
    field,   \* the instance's cached 'field' attribute, NoField before the first access
    builds,  \* how many form fields have been constructed for the instance
    store,   \* target_model's table: primary key -> title, Absent for no record
    held,    \* the model instance the caller holds (None: none)
    call     \* the call the caller is looking at: operation, argument, outcome;
             \* Idle between calls (calls are synchronous, one at a time)

vars == <<block, field, builds, store, held, call>>

TemporalTypes == {"Date", "Time", "DateTime"}
TextTypes == {"Char", "URL", "RichText", "RawHTML"}
ChooserTypes == {"PageChooser"}
BlockTypes == TemporalTypes \cup TextTypes \cup ChooserTypes
\* the classes whose __init__ assigns self.field; the others build it on first access
EagerTypes == {"Char", "URL", "RawHTML"}

Pks == 1..MaxPk
Titles == {"Home", "About"}
Absent == ""
NoField == [kind |-> "unset"]
Idle == [op |-> "none"]

\* the required flag of the form field a block constructs: every class hands
\* its 'required' option to the field, except RichTextBlock, which builds
\* forms.CharField(widget=RichTextArea) and so keeps the field's default
FieldRequired(b) == IF b.type = "RichText" THEN TRUE ELSE b.required

FieldKind(b) ==
    CASE b.type \in {"Char", "RichText", "RawHTML"} -> "CharField"
      [] b.type = "URL" -> "URLField"
      [] b.type = "Date" -> "DateField"
      [] b.type = "Time" -> "TimeField"
      [] b.type = "DateTime" -> "DateTimeField"
      [] b.type = "PageChooser" -> "ModelChoiceField"

\* the n-th form field constructed for block b, with its widget
NewField(b, n) ==
    [kind |-> FieldKind(b), required |-> FieldRequired(b),
     renders_errors |-> b.renders_errors, serial |-> n]

\* self.field through a property that builds and stores a field on every access
AccessFieldRebuilt(b, cache, n) ==
    [f |-> NewField(b, n + 1), cache |-> NewField(b, n + 1), builds |-> n + 1]
\* self.field through a plain property: a new field on every access
AccessFieldUncached(b, cache, n) ==
    [f |-> NewField(b, n + 1), cache |-> cache, builds |-> n + 1]
\* self.field: an instance attribute (set by __init__) or a cached_property,
\* which builds the field on the first access and stores it on the instance
AccessField(b, cache, n) ==
    IF cache = NoField
    THEN [f |-> NewField(b, n + 1), cache |-> NewField(b, n + 1), builds |-> n + 1]
    ELSE [f |-> cache, cache |-> cache, builds |-> n]

\* target_model.objects.get(pk=value)
Get(st, value) ==
    LET find(n) == IF n \in DOMAIN st /\ st[n] # Absent
                   THEN Ret(Inst(IntV(n), st[n]))
                   ELSE Raise("DoesNotExist", "")
    IN  CASE value.t = "int" -> find(value.n)
          [] value.t = "str" ->
               IF Len(value.s) > 0 /\ DigitsAt(value.s, 1, Len(value.s)) = Len(value.s)
               THEN find(ToInt(value.s))
               ELSE Raise("ValueError", "")
          [] value.t = "none" -> Raise("DoesNotExist", "")
          [] OTHER -> Raise("TypeError", "")

\* Model.__eq__: two instances of a model are equal when their primary keys are
ModelEq(a, b) == IsInst(a) /\ IsInst(b) /\ a.pk # None /\ a.pk = b.pk

---------------------------------------------------------------------------
\* to_python and get_prep_value

\* Block.to_python / Block.get_prep_value of the base class: the value itself
BaseToPython(value) == Ret(value)
BaseGetPrepValue(value) == value

DateBlock_to_python(value) ==
    IF value = None \/ value.t \in {"date", "datetime"} THEN Ret(value)
    ELSE parse_date(value)

TimeBlock_to_python(value) ==
    IF value = None \/ value.t = "time" THEN Ret(value)
    ELSE parse_time(value)

DateTimeBlock_to_python(value) ==
    IF value = None \/ value.t = "datetime" THEN Ret(value)
    ELSE parse_datetime(value)

\* except self.target_model.DoesNotExist: return None
NoneIfMissing(r) ==
    IF r.kind = "raise" /\ r.exc = "DoesNotExist" THEN Ret(None) ELSE r

\* a to_python that hands the identifier back when no record has it
ChooserBlock_to_python_keep(st, value) ==
    IF value = None \/ IsInst(value) \/ Get(st, value) = Raise("DoesNotExist", "")
    THEN Ret(value)
    ELSE Get(st, value)
\* a to_python that looks an instance up again
ChooserBlock_to_python_refetch(st, value) ==
    IF value = None THEN Ret(value)
    ELSE NoneIfMissing(Get(st, IF IsInst(value) THEN value.pk ELSE value))
\* ChooserBlock.to_python
ChooserBlock_to_python(st, value) ==
    IF value = None \/ IsInst(value) THEN Ret(value)
    ELSE NoneIfMissing(Get(st, value))

\* a get_prep_value that stores the instance itself
ChooserBlock_get_prep_value_keep(value) == value
ChooserBlock_get_prep_value(value) ==
    IF IsInst(value) THEN value.pk ELSE value

to_python(b, st, value) ==
    CASE b.type = "Date" -> DateBlock_to_python(value)
      [] b.type = "Time" -> TimeBlock_to_python(value)
      [] b.type = "DateTime" -> DateTimeBlock_to_python(value)
      [] b.type \in ChooserTypes -> ChooserBlock_to_python(st, value)
      [] OTHER -> BaseToPython(value)

get_prep_value(b, value) ==
    IF b.type \in ChooserTypes THEN ChooserBlock_get_prep_value(value)
    ELSE BaseGetPrepValue(value)

\* the value as it comes back from storage: get_prep_value, the JSON
\* serializer and its decoder, then to_python
Decoded(b, st, js) == IF js.kind = "raise" THEN js ELSE to_python(b, st, js.val)
Reload(b, st, value) == Decoded(b, st, JSONRoundTrip(get_prep_value(b, value)))

---------------------------------------------------------------------------
\* django.forms: Field.clean = to_python, validate (required), run_validators

IsEmpty(v) == v = None \/ v = StrV(<<>>)
ValidationError(code) == Raise("ValidationError", code)

StartsWith(r, prefix) == Len(r) >= Len(prefix) /\ SubSeq(r, 1, Len(prefix)) = prefix
HttpScheme == <<"h", "t", "t", "p", ":", "/", "/">>
\* URLField.to_python puts http:// before a value that names no scheme
WithScheme(u) ==
    IF \E i \in 1..Len(u) : u[i] = ":" THEN u ELSE HttpScheme \o u
\* URLValidator, on the sampled values: an http URL whose host has a dot and
\* no space
URLValidator(u) ==
    /\ StartsWith(u, HttpScheme)
    /\ \E i \in (Len(HttpScheme) + 2)..(Len(u) - 1) : u[i] = "."
    /\ \A i \in 1..Len(u) : u[i] # " "

\* time.strptime over the field's input formats, on the sampled strings:
\* %Y-%m-%d for a date, %H:%M[:%S[.%f]] for a time, and the date, a space
\* and the time (or the date alone) for a datetime; kd and kt are the matches
StrptimeMatch(kind, str, kd, kt) ==
    CASE kind = "DateField" ->
           IF kd.ok /\ kd.end = Len(str) + 1 /\ ValidDate(kd.y, kd.m, kd.d)
           THEN Ret(DateV(kd.y, kd.m, kd.d)) ELSE ValidationError("invalid")
      [] kind = "TimeField" ->
           IF kt.ok /\ kt.end = Len(str) + 1 /\ ValidTime(kt.h, kt.mi, kt.s, kt.us)
           THEN Ret(TimeV(kt.h, kt.mi, kt.s, kt.us)) ELSE ValidationError("invalid")
      [] kind = "DateTimeField" ->
           IF kd.ok /\ kd.end = Len(str) + 1 /\ ValidDate(kd.y, kd.m, kd.d)
           THEN Ret(DateTimeV(kd.y, kd.m, kd.d, 0, 0, 0, 0, <<>>))
           ELSE IF /\ kt.ok /\ kt.end = Len(str) + 1
                   /\ ValidDate(kd.y, kd.m, kd.d)
                   /\ ValidTime(kt.h, kt.mi, kt.s, kt.us)
           THEN Ret(DateTimeV(kd.y, kd.m, kd.d, kt.h, kt.mi, kt.s, kt.us, <<>>))
           ELSE ValidationError("invalid")
StrptimeTime(kind, str, kd) ==
    StrptimeMatch(kind, str, kd,
                  IF kind = "TimeField" THEN ScanTime(str, 1)
                  ELSE IF kd.ok /\ CharAt(str, kd.end) = " "
                       THEN ScanTime(str, kd.end + 1) ELSE NoMatch)
Strptime(kind, str) == StrptimeTime(kind, str, ScanDate(str))

\* except (ValueError, self.queryset.model.DoesNotExist): invalid_choice
InvalidChoiceIfMissing(r) ==
    IF r.kind = "raise" /\ r.exc \in {"ValueError", "DoesNotExist"}
    THEN ValidationError("invalid_choice") ELSE r

\* the field's own to_python
FieldToPython(f, st, value) ==
    CASE f.kind = "CharField" ->
           Ret(IF IsEmpty(value) THEN StrV(<<>>) ELSE value)
      [] f.kind = "URLField" ->
           Ret(IF IsEmpty(value) THEN StrV(<<>>) ELSE StrV(WithScheme(value.s)))
      [] f.kind \in {"DateField", "TimeField", "DateTimeField"} ->
           IF IsEmpty(value) THEN Ret(None)
           ELSE IF IsStr(value) THEN Strptime(f.kind, value.s)
           ELSE Ret(value)
      [] f.kind = "ModelChoiceField" ->
           IF IsEmpty(value) THEN Ret(None)
           ELSE InvalidChoiceIfMissing(Get(st, value))

\* Field.validate and Field.run_validators on what to_python made of the value
Validate(f, r) ==
    IF r.kind = "raise" THEN r
    ELSE IF IsEmpty(r.val) /\ f.required THEN ValidationError("required")
    ELSE IF f.kind = "URLField" /\ ~IsEmpty(r.val) /\ ~URLValidator(r.val.s)
         THEN ValidationError("invalid")
    ELSE r

\* field.clean(value)
FieldClean(f, st, value) == Validate(f, FieldToPython(f, st, value))

\* the value a block's clean hands to its field: clean without the
\* conversion of an instance to its identifier
CleanArgRaw(b, value) == value
\* ChooserBlock.clean turns an instance into its pk; FieldBlock.clean passes
\* the value on
CleanArg(b, value) ==
    IF b.type \in ChooserTypes /\ IsInst(value) THEN value.pk ELSE value

\* clean(value) of a block whose field is f: self.field.clean(value)
FieldBlock_clean(b, f, st, value) == FieldClean(f, st, CleanArg(b, value))

---------------------------------------------------------------------------
\* The values the operations are called with

Chars_not_a_date == <<"n", "o", "t", "-", "a", "-", "d", "a", "t", "e">>

DateTuples == {<<2020, 2, 29>>, <<2021, 2, 29>>, <<2020, 12, 31>>,
               <<2020, 13, 1>>, <<2020, 0, 10>>}
TimeTuples == {<<9, 30, 5, 0>>, <<9, 30, 5, 120000>>, <<9, 30, 5, 123456>>,
               <<23, 59, 59, 999999>>, <<24, 30, 5, 0>>, <<9, 60, 5, 0>>}
Offsets == {<<>>, <<0>>, <<330>>, <<0 - 300>>}
DateTimeTuples ==
    {<<d, t, z>> : d \in {<<2020, 2, 29>>, <<2020, 13, 1>>},
                   t \in {<<9, 30, 5, 0>>, <<9, 30, 5, 120000>>,
                          <<9, 30, 5, 123456>>, <<24, 30, 5, 0>>},
                   z \in Offsets}

DateValues == {DateV(t[1], t[2], t[3]) : t \in {u \in DateTuples : ValidDate(u[1], u[2], u[3])}}
TimeValues ==
    {TimeV(t[1], t[2], t[3], t[4]) :
        t \in {u \in TimeTuples : ValidTime(u[1], u[2], u[3], u[4])}}
DateTimeValues ==
    {DateTimeV(k[1][1], k[1][2], k[1][3], k[2][1], k[2][2], k[2][3], k[2][4], k[3]) :
        k \in {u \in DateTimeTuples :
                 /\ ValidDate(u[1][1], u[1][2], u[1][3])
                 /\ ValidTime(u[2][1], u[2][2], u[2][3], u[2][4])}}

JunkStrings == {StrV(<<>>), StrV(Chars_not_a_date), StrV(<<"2", "0", "2", "0">>)}
DateStrings ==
    {StrV(IsoDate(t[1], t[2], t[3])) : t \in DateTuples}
      \cup {StrV(<<"2", "0", "2", "0", "-", "2", "-", "9">>)} \cup JunkStrings
TimeStrings ==
    {StrV(IsoTime(t[1], t[2], t[3], t[4])) : t \in TimeTuples}
      \cup {StrV(<<"9", ":", "3", "0">>), StrV(<<"0", "9", ":", "3", "0", ":">>)}
      \cup JunkStrings
DateTimeStrings ==
    {StrV(IsoDate(k[1][1], k[1][2], k[1][3]) \o <<"T">>
            \o IsoTime(k[2][1], k[2][2], k[2][3], k[2][4]) \o IsoOffset(k[3])) :
        k \in DateTimeTuples}
      \cup {StrV(IsoDate(2020, 2, 29) \o <<" ">> \o IsoTime(9, 30, 5, 0)),
            StrV(IsoDate(2020, 2, 29))}
      \cup JunkStrings
TextStrings == {StrV(<<>>), StrV(<<"h", "i">>)}
URLStrings ==
    TextStrings \cup {StrV(HttpScheme \o <<"a", ".", "b", "c">>),
                      StrV(<<"a", ".", "b", "c">>), StrV(<<"a", " ", "b">>)}
IdStrings == {StrV(Pad(p, 1)) : p \in Pks} \cup {StrV(<<>>), StrV(<<"x">>)}

\* strings as a form submission or the decoder of stored content delivers them
Strings(b) ==
    CASE b.type = "Date" -> DateStrings
      [] b.type = "Time" -> TimeStrings
      [] b.type = "DateTime" -> DateTimeStrings
      [] b.type = "URL" -> URLStrings
      [] b.type \in ChooserTypes -> IdStrings
      [] OTHER -> TextStrings

\* native values of the block's type; h is the instance the caller holds
Natives(b, h) ==
    CASE b.type = "Date" -> DateValues
      [] b.type = "Time" -> TimeValues
      [] b.type = "DateTime" -> DateTimeValues
      [] b.type \in ChooserTypes -> {h} \ {None}
      [] OTHER -> Strings(b)

Identifiers(b) == IF b.type \in ChooserTypes THEN {IntV(p) : p \in Pks} ELSE {}

Values(b, h) == {None} \cup Natives(b, h) \cup Strings(b) \cup Identifiers(b)

ErrorLists == {None, [t |-> "errors", codes |-> <<"required">>]}
Labels == {"", "Title"}

---------------------------------------------------------------------------
\* Operations

\* the errors render_form hands to the template whatever the widget did
TemplateErrorsAlways(widget_has_rendered_errors, errors) == errors
\* 'errors': errors if (not widget_has_rendered_errors) else None
TemplateErrors(widget_has_rendered_errors, errors) ==
    IF ~widget_has_rendered_errors THEN errors ELSE None

\* what render_form passes on: the label tag, the widget call and the
\* template context
render_form(b, f1, f2, value, prefix, errors) ==
    LET label_html == IF b.label # "" THEN <<"label", prefix, b.label>> ELSE <<>>
        widget_html ==
            IF f1.renders_errors
            THEN [method |-> "render_with_errors", name |-> prefix,
                  value |-> value, errors |-> errors]
            ELSE [method |-> "render", name |-> prefix,
                  value |-> value, errors |-> None]
    IN  [t |-> "html", label_tag |-> label_html, label |-> b.label,
         widget |-> widget_html, field |-> f2,
         errors |-> TemplateErrors(f1.renders_errors, errors)]

\* __init__: Char, URL and RawHTML blocks assign self.field, the other
\* classes keep their options for the first access
Init ==
    /\ block \in [type : BlockTypes, required : BOOLEAN,
                  label : Labels, renders_errors : BOOLEAN]
    /\ field = IF block.type \in EagerTypes THEN NewField(block, 1) ELSE NoField
    /\ builds = IF block.type \in EagerTypes THEN 1 ELSE 0
    /\ store = [p \in Pks |-> Absent]
    /\ held = None
    /\ call = Idle

\* the record store of the block's target_model (chooser blocks have one)
Create(p, title) ==
    /\ call = Idle
    /\ block.type \in ChooserTypes
    /\ store[p] = Absent
    /\ store' = [store EXCEPT ![p] = title]
    /\ UNCHANGED <<block, field, builds, held, call>>

Delete(p) ==
    /\ call = Idle
    /\ block.type \in ChooserTypes
    /\ store[p] # Absent
    /\ store' = [store EXCEPT ![p] = Absent]
    /\ UNCHANGED <<block, field, builds, held, call>>

\* the caller loads the record with primary key p
Obtain(p) ==
    /\ call = Idle
    /\ block.type \in ChooserTypes
    /\ store[p] # Absent
    /\ held' = Inst(IntV(p), store[p])
    /\ UNCHANGED <<block, field, builds, store, call>>

\* the caller makes an instance and does not save it
Unsaved(title) ==
    /\ call = Idle
    /\ block.type \in ChooserTypes
    /\ held' = Inst(None, title)
    /\ UNCHANGED <<block, field, builds, store, call>>

ToPython(value) ==
    /\ call = Idle
    /\ call' = [op |-> "to_python", arg |-> value,
                ret |-> to_python(block, store, value)]
    /\ UNCHANGED <<block, field, builds, store, held>>

GetPrepValue(value) ==
    /\ call = Idle
    /\ call' = [op |-> "get_prep_value", arg |-> value,
                ret |-> Ret(get_prep_value(block, value))]
    /\ UNCHANGED <<block, field, builds, store, held>>

\* a native value is stored and read back
StoreAndReload(value) ==
    /\ call = Idle
    /\ call' = [op |-> "reload", arg |-> value,
                ret |-> Reload(block, store, value)]
    /\ UNCHANGED <<block, field, builds, store, held>>

\* raw is what the widget's value_from_datadict finds in the submission
ValueFromDatadict(raw) ==
    LET a == AccessField(block, field, builds)
    IN  /\ call = Idle
        /\ field' = a.cache
        /\ builds' = a.builds
        /\ call' = [op |-> "value_from_datadict", arg |-> raw,
                    ret |-> to_python(block, store, raw),
                    accessed |-> <<a.f>>, cached |-> field # NoField]
        /\ UNCHANGED <<block, store, held>>

Clean(value) ==
    LET a == AccessField(block, field, builds)
    IN  /\ call = Idle
        /\ field' = a.cache
        /\ builds' = a.builds
        /\ call' = [op |-> "clean", arg |-> value,
                    field_arg |-> CleanArg(block, value),
                    ret |-> FieldBlock_clean(block, a.f, store, value),
                    accessed |-> <<a.f>>, cached |-> field # NoField]
        /\ UNCHANGED <<block, store, held>>

RenderForm(value, errors) ==
    LET a1 == AccessField(block, field, builds)
        a2 == AccessField(block, a1.cache, a1.builds)
    IN  /\ call = Idle
        /\ field' = a2.cache
        /\ builds' = a2.builds
        /\ call' = [op |-> "render_form", arg |-> value, errors |-> errors,
                    ret |-> Ret(render_form(block, a1.f, a2.f, value, "prefix", errors)),
                    accessed |-> <<a1.f, a2.f>>, cached |-> field # NoField]
        /\ UNCHANGED <<block, store, held>>

\* the caller takes the outcome; the next call can begin
Return ==
    /\ call # Idle
    /\ call' = Idle
    /\ UNCHANGED <<block, field, builds, store, held>>

Next ==
    \/ \E p \in Pks, title \in Titles : Create(p, title)
    \/ \E p \in Pks : Delete(p)
    \/ \E p \in Pks : Obtain(p)
    \/ \E title \in Titles : Unsaved(title)
    \/ \E v \in Values(block, held) : ToPython(v)
    \/ \E v \in Values(block, held) : GetPrepValue(v)
    \/ \E v \in Natives(block, held) : StoreAndReload(v)
    \/ \E raw \in {None} \cup Strings(block) : ValueFromDatadict(raw)
    \/ \E v \in Values(block, held) : Clean(v)
    \/ \E v \in {None} \cup Natives(block, held), e \in ErrorLists : RenderForm(v, e)
    \/ Return

Spec == Init /\ [][Next]_vars

---------------------------------------------------------------------------
\* Properties

RecordExists(st, pk) == pk.t = "int" /\ pk.n \in DOMAIN st /\ st[pk.n] # Absent
IsValidationError(r) == r.kind = "raise" /\ r.exc = "ValidationError"
Returned(r) == r.kind = "return"
\* the call just made is a clean that ended in a validation error
FailedClean == call.op = "clean" /\ IsValidationError(call.ret)
\* the instance given to the call has a primary key that no record has any more
StaleArg ==
    /\ call.op \in {"clean", "to_python"}
    /\ IsInst(call.arg)
    /\ call.arg.pk # None
    /\ ~RecordExists(store, call.arg.pk)
\* the tags of the values that are instances of the block's native type
\* (a datetime is a date)
NativeTags(b) ==
    CASE b.type = "Date" -> {"date", "datetime"}
      [] b.type = "Time" -> {"time"}
      [] b.type = "DateTime" -> {"datetime"}
      [] b.type \in ChooserTypes -> {"inst"}
      [] OTHER -> {"str"}
\* the string is well formatted and its numbers make a value of the block's type
DenotesValue(b, str) ==
    CASE b.type = "Date" ->
           ScanDate(str).ok /\ ScanDate(str).end = Len(str) + 1
             /\ ValidDate(ScanDate(str).y, ScanDate(str).m, ScanDate(str).d)
      [] b.type = "Time" ->
           ScanTime(str, 1).ok
             /\ ValidTime(ScanTime(str, 1).h, ScanTime(str, 1).mi,
                          ScanTime(str, 1).s, ScanTime(str, 1).us)
      [] b.type = "DateTime" -> Returned(parse_datetime(StrV(str)))
                                  /\ parse_datetime(StrV(str)) # Ret(None)
      [] OTHER -> FALSE

\* C1: for a chooser block, to_python(get_prep_value(instance)), taken through
\* storage in any state of the record store, equals the instance when a
\* record with the instance's id exists and is None when none does.
C1_ChooserReload ==
    (call.op = "reload" /\ block.type \in ChooserTypes) =>
        IF RecordExists(store, call.arg.pk)
        THEN Returned(call.ret) /\ ModelEq(call.ret.val, call.arg)
        ELSE call.ret = Ret(None)

\* an instance whose record was deleted and created again is read back
C1_Witness ==
    /\ call.op = "reload" /\ block.type \in ChooserTypes
    /\ RecordExists(store, call.arg.pk)
    /\ Returned(call.ret) /\ call.ret.val # call.arg

\* C2: to_python of a Date, Time or DateTime block, given a string that is
\* not a valid date, time or datetime (badly formatted, or well formatted
\* with an impossible value), returns None and never raises.
C2_InvalidStringGivesNone ==
    (/\ call.op = "to_python" /\ block.type \in TemporalTypes
     /\ IsStr(call.arg) /\ ~DenotesValue(block, call.arg.s))
        => call.ret = Ret(None)

\* C3: for a Date, Time or DateTime block and a native value v, to_python of
\* the string the storage serializer writes for v is equal to v, and
\* to_python(v) is v.
C3_TemporalRoundTrip ==
    (/\ call.op \in {"reload", "to_python"} /\ block.type \in TemporalTypes
     /\ call.arg.t \in NativeTags(block))
        => call.ret = Ret(call.arg)

\* C4: for every block type and either setting of the required option, clean
\* of an empty value raises a validation error when the block is required
\* and returns when the block is optional.
C4_RequiredDecidesEmpty ==
    (call.op = "clean" /\ IsEmpty(call.arg)) =>
        IF block.required THEN IsValidationError(call.ret) ELSE Returned(call.ret)

\* C5: for a chooser block, clean(instance) has the outcome of
\* clean(instance's identifier), and the field's clean is never given an
\* instance.
C5_CleanByIdentifier ==
    (call.op = "clean" /\ block.type \in ChooserTypes) =>
        /\ ~IsInst(call.field_arg)
        /\ IsInst(call.arg) =>
             call.ret = FieldBlock_clean(block, field, store, call.arg.pk)

\* clean of an instance whose record exists returns
C5_Witness ==
    /\ call.op = "clean" /\ block.type \in ChooserTypes
    /\ IsInst(call.arg) /\ RecordExists(store, call.arg.pk)
    /\ Returned(call.ret)

\* C6: on a block with a lazily built field, over any sequence of
\* render_form, value_from_datadict and clean calls, the field is constructed
\* at most once and every access returns the one cached field.
C6_FieldBuiltOnce ==
    block.type \notin EagerTypes =>
        /\ builds <= 1
        /\ field # NoField => field = NewField(block, 1)
        /\ call.op \in {"render_form", "value_from_datadict", "clean"} =>
             \A i \in 1..Len(call.accessed) : call.accessed[i] = field

\* render_form, with its two accesses, on a block whose field was cached before
C6_Witness ==
    /\ block.type \notin EagerTypes
    /\ call.op = "render_form" /\ call.cached
    /\ Len(call.accessed) = 2

\* C7, as the specification states it: a clean call that ends in a
\* validation error leaves the block's configuration, its cached field and
\* the record store as they were, also on a block whose field has not been
\* accessed yet.
C7_FailedCleanChangesNothing ==
    [][(call = Idle /\ FailedClean')
         => (block' = block /\ field' = field /\ store' = store)]_vars

\* C7, amended: a clean call that ends in a validation error leaves the
\* configuration, the record store and a field that was already cached as
\* they were; on a block whose field was not yet accessed it builds and
\* caches the field.
C7_FailedCleanKeepsConfigAndStore ==
    [][(call = Idle /\ FailedClean')
         => /\ block' = block /\ store' = store /\ held' = held
            /\ field # NoField => field' = field
            /\ field = NoField => field' = NewField(block, 1)]_vars

\* a clean that failed on a block whose field was already cached
C7_Witness == block.type \notin EagerTypes /\ FailedClean /\ call.cached

\* C8: render_form hands the errors to exactly one renderer: to the widget
\* when it has render_with_errors (the template then gets none), to the
\* template otherwise (the widget is then rendered without them).
C8_ErrorsToOneRenderer ==
    call.op = "render_form" =>
        IF field.renders_errors
        THEN /\ call.ret.val.widget.method = "render_with_errors"
             /\ call.ret.val.widget.errors = call.errors
             /\ call.ret.val.errors = None
        ELSE /\ call.ret.val.widget.method = "render"
             /\ call.ret.val.widget.errors = None
             /\ call.ret.val.errors = call.errors

\* errors rendered by a widget that can render them
C8_Witness ==
    /\ call.op = "render_form" /\ call.errors # None
    /\ field.renders_errors
    /\ call.ret.val.widget.errors = call.errors

\* C9: to_python of a Date, Time, DateTime or chooser block is idempotent
\* with the record store held fixed, and what it returns is None or a native
\* value of the block's type, never a string or an identifier.
C9_ToPythonIdempotent ==
    (/\ call.op = "to_python"
     /\ block.type \in TemporalTypes \cup ChooserTypes
     /\ Returned(call.ret))
        => /\ to_python(block, store, call.ret.val) = call.ret
           /\ call.ret.val = None \/ call.ret.val.t \in NativeTags(block)

\* an identifier with no record, turned into None
C9_Witness ==
    /\ call.op = "to_python" /\ block.type \in ChooserTypes
    /\ call.arg.t = "int" /\ ~RecordExists(store, call.arg)
    /\ call.ret = Ret(None)

\* C10: for a chooser block and an instance whose record has been deleted
\* since it was obtained, clean(instance) raises a validation error, whether
\* the block is required or optional, and to_python(instance) returns the
\* instance as it is.
C10_StaleInstance ==
    (StaleArg /\ block.type \in ChooserTypes) =>
        IF call.op = "clean"
        THEN call.ret = ValidationError("invalid_choice")
        ELSE call.ret = Ret(call.arg)

\* clean of a stale instance on an optional block
C10_Witness ==
    /\ StaleArg /\ call.op = "clean" /\ ~block.required
    /\ IsValidationError(call.ret)

====
